---- MODULE Spec2Model ----
(***************************************************************************)
(* Model of two pieces of the DETR implementation:                         *)
(*   models/DETR/model/criterion.py          (SetCriterion)                *)
(*   models/DETR/model/position_encoding.py  (position embeddings)         *)
(*                                                                         *)
(* Tensors, Python lists and tuples are sequences; the element the code    *)
(* addresses as t[i] is At(t, i) here, so index VALUES stay zero-based as  *)
(* in the code.  A Python dict that is iterated is a sequence of           *)
(* <<key, value>> items in insertion order; a dict that is only looked up  *)
(* is a function from keys to values.                                      *)
(***************************************************************************)
EXTENDS Integers, Sequences, FiniteSets, TLC

VARIABLES
    outputs,            \* forward's argument: dict of predictions (items in insertion order)
    targets,            \* forward's argument: list of {labels, boxes}, one per image
    matcher,            \* self.matcher: what the injected matcher has answered so far
    pc,                 \* position inside SetCriterion.forward
    indices,            \* forward's local: the final layer's assignment
    indices_aux,        \* forward's local: the current auxiliary layer's assignment
    num_boxes,          \* forward's local: the normalizer
    losses,             \* forward's local: the result dictionary
    aux_i,              \* forward's loop variable i (number of auxiliary layers done)
    box_frame,          \* locals of the latest loss_boxes call (idx, src_boxes, target_boxes)
    call,               \* which call of forward is running (1 or 2)
    prev_losses,        \* what the first call returned
    perturbed,          \* index k of the auxiliary layer changed between the calls, or -1
    args,               \* build_position_encoding's argument
    position_embedding, \* the module build_position_encoding returned
    mask_shape,         \* shape [B, H, W] of the mask given to the embedding
    pos,                \* what the embedding's forward returned
    pe_pc               \* position inside the build / forward sequence

crit_vars == <<outputs, targets, matcher, pc, indices, indices_aux, num_boxes,
               losses, aux_i, box_frame, call, prev_losses, perturbed>>
pe_vars == <<args, position_embedding, mask_shape, pos, pe_pc>>
vars == <<outputs, targets, matcher, pc, indices, indices_aux, num_boxes,
          losses, aux_i, box_frame, call, prev_losses, perturbed,
          args, position_embedding, mask_shape, pos, pe_pc>>

----------------------------------------------------------------------------
(* Bounds of the model *)

MaxBatch == 2
NumQueries == 2
MaxAux == 2
MaxHiddenDim == 8
MaxOver == 1

(* Program constants *)

num_classes == 2
NumEmbeddings == 50

----------------------------------------------------------------------------
(* Generic helpers standing for Python / torch primitives *)

RECURSIVE Cat(_)
Cat(seqs) == IF seqs = <<>> THEN <<>> ELSE Head(seqs) \o Cat(Tail(seqs))

RECURSIVE SumSeq(_)
SumSeq(s) == IF s = <<>> THEN 0 ELSE Head(s) + SumSeq(Tail(s))

Abs(x) == IF x < 0 THEN -x ELSE x
Max2(a, b) == IF a > b THEN a ELSE b
Min2(a, b) == IF a < b THEN a ELSE b

RECURSIVE GCD(_, _)
GCD(a, b) == IF b = 0 THEN a ELSE GCD(b, a % b)

(* A float is a fraction [num, den]; den = 0 only for what a float division
   by zero gives: 0/0 (nan) and x/0 with x > 0 (inf). *)
Frac(n, d) ==
    IF d = 0 THEN [num |-> IF n = 0 THEN 0 ELSE 1, den |-> 0]
    ELSE LET g == GCD(Abs(n), d) IN [num |-> n \div g, den |-> d \div g]

Zero == [num |-> 0, den |-> 1]

FracAdd(x, y) == Frac(x.num * y.den + y.num * x.den, x.den * y.den)

RECURSIVE FracSum(_)
FracSum(s) == IF s = <<>> THEN Zero ELSE FracAdd(Head(s), FracSum(Tail(s)))

(* tensor / tensor for a one-element float divisor *)
TensorDiv(x, d) == Frac(x.num, x.den * d)

(* t[i] for a zero-based index value i *)
At(t, i) == t[i + 1]

(* dict helpers *)
Has(d, k) == \E n \in DOMAIN d : d[n][1] = k
Get(d, k) == d[CHOOSE n \in DOMAIN d : d[n][1] = k][2]
Update(d, e) == e @@ d

----------------------------------------------------------------------------
(* Inputs: predictions and targets the caller may pass *)

Variants == {1, 2}

(* One query's class scores (num_classes + 1 logits) and its box (cx, cy, w, h),
   in grid units; every (variant, image, query) gets its own box. *)
PredLogit(v, b, q) == [c \in 1..(num_classes + 1) |-> (v + b + 2 * q + c) % 3]
PredBox(v, b, q) == <<2 + 2 * q + v, 2 + 2 * b, 2, 2 * v>>

(* One decoder layer's prediction set for a batch of B images. *)
PredLayer(v, B) ==
    [pred_logits |-> [b \in 1..B |-> [q \in 1..NumQueries |-> PredLogit(v, b - 1, q - 1)]],
     pred_boxes  |-> [b \in 1..B |-> [q \in 1..NumQueries |-> PredBox(v, b - 1, q - 1)]]]

(* The annotated objects an image may carry: a prefix of this pool, cut to
   at most NumQueries objects (the model-level invariant Q >= N_i). *)
ObjectPool == << [label |-> 1, box |-> <<3, 2, 2, 2>>],
                 [label |-> 0, box |-> <<5, 4, 2, 4>>] >>

TargetOf(n) == [labels |-> [k \in 1..n |-> ObjectPool[k].label],
                boxes  |-> [k \in 1..n |-> ObjectPool[k].box]]

TargetChoices == {TargetOf(n) : n \in 0..Min2(Len(ObjectPool), NumQueries)}

(* The orders in which a set of keys may have been inserted into a dict. *)
KeyOrders(S) ==
    {s \in [1..Cardinality(S) -> S] : \A m, n \in DOMAIN s : m # n => s[m] # s[n]}

(* The predictions dict with its items in the order `order`. *)
MakeOutputs(order, final, aux) ==
    [n \in DOMAIN order |->
        <<order[n],
          CASE order[n] = "pred_logits" -> final.pred_logits
            [] order[n] = "pred_boxes"  -> final.pred_boxes
            [] OTHER                    -> aux>>]

----------------------------------------------------------------------------
(* The injected matcher (model/matcher.py): a deterministic black box that
   returns, per image, a pair (matched query indices, matched target indices)
   pairing every target with a distinct query. *)

Policies == {"identity", "swap", "tail", "descending"}

Assign(p, n) ==
    CASE p = "identity"   -> <<[k \in 1..n |-> k - 1],              [k \in 1..n |-> k - 1]>>
      [] p = "swap"       -> <<[k \in 1..n |-> k - 1],              [k \in 1..n |-> n - k]>>
      [] p = "tail"       -> <<[k \in 1..n |-> NumQueries - n + k - 1], [k \in 1..n |-> k - 1]>>
      [] p = "descending" -> <<[k \in 1..n |-> NumQueries - k],     [k \in 1..n |-> k - 1]>>

MatcherAnswer(p, tgts) == [b \in 1..Len(tgts) |-> Assign(p, Len(tgts[b].labels))]

----------------------------------------------------------------------------
(* Geometry utilities (utils/utils.py) *)

(* (cx, cy, w, h) -> (x0, y0, x1, y1); corners are kept in half grid units
   so that cx - w/2 stays an integer (generalized IoU is scale invariant). *)
cxcywh_to_xyxy(bx) ==
    <<2 * bx[1] - bx[3], 2 * bx[2] - bx[4], 2 * bx[1] + bx[3], 2 * bx[2] + bx[4]>>

BoxArea(c) == (c[3] - c[1]) * (c[4] - c[2])

(* 1 - GIoU of two corner boxes, as a fraction *)
OneMinusGiou(a, b) ==
    LET iw    == Max2(0, Min2(a[3], b[3]) - Max2(a[1], b[1]))
        ih    == Max2(0, Min2(a[4], b[4]) - Max2(a[2], b[2]))
        inter == iw * ih
        union == BoxArea(a) + BoxArea(b) - inter
        ew    == Max2(a[3], b[3]) - Min2(a[1], b[1])
        eh    == Max2(a[4], b[4]) - Min2(a[2], b[2])
        hull  == ew * eh
    IN  \* 1 - (inter/union - (hull - union)/hull)
        Frac(union * hull - inter * hull + (hull - union) * union, union * hull)

----------------------------------------------------------------------------
(* SetCriterion *)

empty_weight == [c \in 1..(num_classes + 1) |-> IF c = num_classes + 1 THEN "eos_coef" ELSE "1.0"]

(* mutant: the image number is dropped (full_like(src, 0)) *)
get_src_permutation_idx_NoEnumerate(inds) ==
    LET batch_idx == Cat([n \in 1..Len(inds) |-> [k \in 1..Len(inds[n][1]) |-> 0]])
        src_idx   == Cat([n \in 1..Len(inds) |-> inds[n][1]])
    IN  <<batch_idx, src_idx>>

_get_src_permutation_idx(inds) ==
    LET batch_idx == Cat([n \in 1..Len(inds) |-> [k \in 1..Len(inds[n][1]) |-> n - 1]])
        src_idx   == Cat([n \in 1..Len(inds) |-> inds[n][1]])
    IN  <<batch_idx, src_idx>>

(* t[J] for an index tensor J *)
Gather(t, J) == [k \in 1..Len(J) |-> At(t, J[k])]

(* tensor[(batch_idx, src_idx)] = values, written in order *)
RECURSIVE IndexPut(_, _, _, _)
IndexPut(t, bidx, sidx, vals) ==
    IF bidx = <<>> THEN t
    ELSE IndexPut([t EXCEPT ![Head(bidx) + 1][Head(sidx) + 1] = Head(vals)],
                  Tail(bidx), Tail(sidx), Tail(vals))

(* mutant: t["labels"] taken in target order instead of t["labels"][J] *)
TargetClasses_LabelsInTargetOrder(src_logits, tgts, inds) ==
    LET idx              == _get_src_permutation_idx(inds)
        target_classes_o == Cat([n \in 1..Len(tgts) |-> tgts[n].labels])
        full             == [b \in 1..Len(src_logits) |->
                                [q \in 1..Len(src_logits[1]) |-> num_classes]]
    IN  IndexPut(full, idx[1], idx[2], target_classes_o)

(* the [B, Q] target tensor loss_labels builds *)
TargetClasses(src_logits, tgts, inds) ==
    LET idx              == _get_src_permutation_idx(inds)
        target_classes_o == Cat([n \in 1..Len(tgts) |-> Gather(tgts[n].labels, inds[n][2])])
        full             == [b \in 1..Len(src_logits) |->
                                [q \in 1..Len(src_logits[1]) |-> num_classes]]
    IN  IndexPut(full, idx[1], idx[2], target_classes_o)

(* F.cross_entropy is not evaluated: the loss is the application to its arguments *)
loss_labels(outs, tgts, inds, nb) ==
    LET src_logits == outs["pred_logits"]
    IN  "loss_ce" :> [fn     |-> "cross_entropy",
                      input  |-> src_logits,
                      target |-> TargetClasses(src_logits, tgts, inds),
                      weight |-> empty_weight]

(* the locals of loss_boxes up to the two gathered box lists *)
BoxFrame(outs, tgts, inds) ==
    LET idx == _get_src_permutation_idx(inds)
    IN  [idx          |-> idx,
         src_boxes    |-> [k \in 1..Len(idx[1]) |->
                              At(At(outs["pred_boxes"], idx[1][k]), idx[2][k])],
         target_boxes |-> Cat([n \in 1..Len(tgts) |-> Gather(tgts[n].boxes, inds[n][2])])]

L1Sum(src_boxes, target_boxes) ==
    SumSeq([k \in 1..Len(src_boxes) |->
              SumSeq([c \in 1..4 |-> Abs(src_boxes[k][c] - target_boxes[k][c])])])

GiouSum(src_boxes, target_boxes) ==
    FracSum([k \in 1..Len(src_boxes) |->
               OneMinusGiou(cxcywh_to_xyxy(src_boxes[k]), cxcywh_to_xyxy(target_boxes[k]))])

loss_boxes(outs, tgts, inds, nb) ==
    LET f == BoxFrame(outs, tgts, inds)
    IN  ("loss_bbox" :> TensorDiv(Frac(L1Sum(f.src_boxes, f.target_boxes), 1), nb))
        @@ ("loss_giou" :> TensorDiv(GiouSum(f.src_boxes, f.target_boxes), nb))

(* mutant: the images are counted, not their targets (len(targets)) *)
NumBoxes_CountsImages(tgts) == Len(tgts)

(* line 119: sum(len(t["labels"]) for t in targets) *)
NumBoxes(tgts) == SumSeq([n \in 1..Len(tgts) |-> Len(tgts[n].labels)])

(* mutant: the suffix counts layers from one *)
SuffixKey_OneBased(k, i) == k \o "_" \o ToString(i + 1)

(* line 142: k + f'_{i}' for every key of l_dict *)
SuffixKey(k, i) == k \o "_" \o ToString(i)

Suffixed(l_dict, i) ==
    LET keys == {SuffixKey(k, i) : k \in DOMAIN l_dict}
    IN  [key \in keys |-> l_dict[CHOOSE k \in DOMAIN l_dict : SuffixKey(k, i) = key]]

(* line 115: the dict without its aux_outputs item, as the matcher reads it *)
outputs_without_aux(outs) ==
    [pred_logits |-> Get(outs, "pred_logits"), pred_boxes |-> Get(outs, "pred_boxes")]

(* the tensors a called function looks up in the dict it is given *)
Lookup(d) == [k \in {d[n][1] : n \in DOMAIN d} |-> Get(d, k)]

(* line 120: next(iter(outputs.values())).device exists for a tensor, not for a list *)
FirstValueHasDevice(outs) == outs[1][1] # "aux_outputs"

AuxLayers(outs) == IF Has(outs, "aux_outputs") THEN Get(outs, "aux_outputs") ELSE <<>>

(* mutant: the loop body reads the last auxiliary layer whatever i is *)
AuxLayer_Last(outs, i) == At(Get(outs, "aux_outputs"), Len(Get(outs, "aux_outputs")) - 1)

(* line 132: the i-th element of outputs['aux_outputs'] *)
AuxLayer(outs, i) == At(Get(outs, "aux_outputs"), i)

----------------------------------------------------------------------------
(* State before forward is called *)

NoFrame == [idx |-> << <<>>, <<>> >>, src_boxes |-> <<>>, target_boxes |-> <<>>]
NoArgs == [position_embedding |-> "", hidden_dim |-> 0, max_extent |-> 0]
NoModule == [kind |-> "none"]
NoPos == [status |-> "none", shape |-> <<>>, channels |-> <<>>]

IdlePE ==
    /\ args = NoArgs
    /\ position_embedding = NoModule
    /\ mask_shape = <<>>
    /\ pos = NoPos
    /\ pe_pc = "idle"

CallStart ==
    /\ matcher = <<>>
    /\ pc = "match"
    /\ indices = <<>>
    /\ indices_aux = <<>>
    /\ num_boxes = 0
    /\ losses = <<>>
    /\ aux_i = 0
    /\ box_frame = NoFrame
    /\ call = 1
    /\ prev_losses = <<>>
    /\ perturbed = -1

(* forward called on any batch of 1..MaxBatch images, with or without an
   aux_outputs item of 0..MaxAux layers, the items in any insertion order *)
Init ==
    /\ \E B \in 1..MaxBatch, fv \in Variants, hasAux \in BOOLEAN :
         \E tg \in [1..B -> TargetChoices], L \in 0..(IF hasAux THEN MaxAux ELSE 0) :
           \E av \in [1..L -> Variants] :
             \E order \in KeyOrders({"pred_logits", "pred_boxes"}
                                    \cup (IF hasAux THEN {"aux_outputs"} ELSE {})) :
               /\ outputs = MakeOutputs(order, PredLayer(fv, B),
                                        [n \in 1..L |-> PredLayer(av[n], B)])
               /\ targets = tg
    /\ CallStart
    /\ IdlePE

----------------------------------------------------------------------------
(* SetCriterion.forward, step by step *)

(* self.matcher(layer, targets): the same answer for the same layer *)
MatcherChoices(layer) ==
    IF layer \in DOMAIN matcher THEN {matcher[layer]} ELSE Policies

(* lines 115-116 *)
Match ==
    /\ pc = "match"
    /\ LET layer == outputs_without_aux(outputs)
       IN  \E p \in MatcherChoices(layer) :
             /\ matcher' = (layer :> p) @@ matcher
             /\ indices' = MatcherAnswer(p, targets)
    /\ pc' = "num_boxes"
    /\ UNCHANGED <<outputs, targets, indices_aux, num_boxes, losses, aux_i,
                   box_frame, call, prev_losses, perturbed>>
    /\ UNCHANGED pe_vars

(* lines 119-120, the first value of the dict being a tensor *)
ComputeNumBoxes ==
    /\ pc = "num_boxes"
    /\ FirstValueHasDevice(outputs)
    /\ num_boxes' = NumBoxes(targets)
    /\ pc' = "loss_labels"
    /\ UNCHANGED <<outputs, targets, matcher, indices, indices_aux, losses, aux_i,
                   box_frame, call, prev_losses, perturbed>>
    /\ UNCHANGED pe_vars

(* lines 119-120, the first value being the aux_outputs list: AttributeError *)
NumBoxesFail ==
    /\ pc = "num_boxes"
    /\ ~FirstValueHasDevice(outputs)
    /\ num_boxes' = NumBoxes(targets)
    /\ pc' = "error"
    /\ UNCHANGED <<outputs, targets, matcher, indices, indices_aux, losses, aux_i,
                   box_frame, call, prev_losses, perturbed>>
    /\ UNCHANGED pe_vars

(* line 126 *)
LossLabels ==
    /\ pc = "loss_labels"
    /\ losses' = Update(losses, loss_labels(Lookup(outputs), targets, indices, num_boxes))
    /\ pc' = "loss_boxes"
    /\ UNCHANGED <<outputs, targets, matcher, indices, indices_aux, num_boxes, aux_i,
                   box_frame, call, prev_losses, perturbed>>
    /\ UNCHANGED pe_vars

(* line 128 *)
LossBoxes ==
    /\ pc = "loss_boxes"
    /\ losses' = Update(losses, loss_boxes(Lookup(outputs), targets, indices, num_boxes))
    /\ box_frame' = BoxFrame(Lookup(outputs), targets, indices)
    /\ pc' = "aux"
    /\ UNCHANGED <<outputs, targets, matcher, indices, indices_aux, num_boxes, aux_i,
                   call, prev_losses, perturbed>>
    /\ UNCHANGED pe_vars

(* lines 131-134: the loop has a next layer, which is matched on its own *)
AuxMatch ==
    /\ pc = "aux"
    /\ aux_i < Len(AuxLayers(outputs))
    /\ LET layer == AuxLayer(outputs, aux_i)
       IN  \E p \in MatcherChoices(layer) :
             /\ matcher' = (layer :> p) @@ matcher
             /\ indices_aux' = MatcherAnswer(p, targets)
    /\ pc' = "aux_losses"
    /\ UNCHANGED <<outputs, targets, indices, num_boxes, losses, aux_i,
                   box_frame, call, prev_losses, perturbed>>
    /\ UNCHANGED pe_vars

(* lines 137-143 *)
AuxLosses ==
    /\ pc = "aux_losses"
    /\ LET aux_outputs == AuxLayer(outputs, aux_i)
           l_dict == Update(loss_labels(aux_outputs, targets, indices_aux, num_boxes),
                            loss_boxes(aux_outputs, targets, indices_aux, num_boxes))
       IN  /\ losses' = Update(losses, Suffixed(l_dict, aux_i))
           /\ box_frame' = BoxFrame(aux_outputs, targets, indices_aux)
    /\ aux_i' = aux_i + 1
    /\ pc' = "aux"
    /\ UNCHANGED <<outputs, targets, matcher, indices, indices_aux, num_boxes,
                   call, prev_losses, perturbed>>
    /\ UNCHANGED pe_vars

(* line 145 *)
Return ==
    /\ pc = "aux"
    /\ aux_i >= Len(AuxLayers(outputs))
    /\ pc' = "done"
    /\ UNCHANGED <<outputs, targets, matcher, indices, indices_aux, num_boxes, losses,
                   aux_i, box_frame, call, prev_losses, perturbed>>
    /\ UNCHANGED pe_vars

Next ==
    \/ Match
    \/ ComputeNumBoxes
    \/ NumBoxesFail
    \/ LossLabels
    \/ LossBoxes
    \/ AuxMatch
    \/ AuxLosses
    \/ Return

Spec == Init /\ [][Next]_vars

----------------------------------------------------------------------------
(* Two calls of forward whose predictions differ only in aux_outputs[k] *)

(* forward called with the items in the usual order and at least one
   auxiliary layer *)
InitPair ==
    /\ \E B \in 1..MaxBatch, fv \in Variants, L \in 1..MaxAux :
         \E tg \in [1..B -> TargetChoices], av \in [1..L -> Variants] :
           /\ outputs = MakeOutputs(<<"pred_logits", "pred_boxes", "aux_outputs">>,
                                    PredLayer(fv, B), [n \in 1..L |-> PredLayer(av[n], B)])
           /\ targets = tg
    /\ CallStart
    /\ IdlePE

(* the caller changes aux_outputs[k] alone and calls forward again, on the
   same criterion (same matcher) and the same targets *)
Perturb ==
    /\ pc = "done"
    /\ call = 1
    /\ \E k \in 0..(Len(AuxLayers(outputs)) - 1), v \in Variants :
         LET n == CHOOSE m \in DOMAIN outputs : outputs[m][1] = "aux_outputs"
             layer == PredLayer(v, Len(targets))
         IN  /\ layer # AuxLayer(outputs, k)
             /\ outputs' = [outputs EXCEPT ![n][2][k + 1] = layer]
             /\ perturbed' = k
    /\ prev_losses' = losses
    /\ call' = 2
    /\ pc' = "match"
    /\ indices' = <<>>
    /\ indices_aux' = <<>>
    /\ num_boxes' = 0
    /\ losses' = <<>>
    /\ aux_i' = 0
    /\ box_frame' = NoFrame
    /\ UNCHANGED <<targets, matcher>>
    /\ UNCHANGED pe_vars

NextPair ==
    \/ Match
    \/ ComputeNumBoxes
    \/ LossLabels
    \/ LossBoxes
    \/ AuxMatch
    \/ AuxLosses
    \/ Return
    \/ Perturb

SpecPair == InitPair /\ [][NextPair]_vars

----------------------------------------------------------------------------
(* position_encoding.py *)

(* PositionEmbeddingSine.__init__ (defaults for what the builder leaves out) *)
PositionEmbeddingSine(n, norm) ==
    [kind |-> "sine", num_pos_feats |-> n, temperature |-> 10000, normalize |-> norm]

(* PositionEmbeddingLearned.__init__: two tables of NumEmbeddings rows *)
PositionEmbeddingLearned(n) ==
    [kind |-> "learned", num_pos_feats |-> n,
     row_embed |-> [num_embeddings |-> NumEmbeddings, embedding_dim |-> n],
     col_embed |-> [num_embeddings |-> NumEmbeddings, embedding_dim |-> n]]

(* mutant: the alias 'v3' is not accepted *)
build_position_encoding_NoV3(a) ==
    LET N_steps == a.hidden_dim \div 2
    IN  IF a.position_embedding \in {"v2", "sine"}
        THEN [raised |-> "", module |-> PositionEmbeddingSine(N_steps, TRUE)]
        ELSE IF a.position_embedding \in {"learned"}
        THEN [raised |-> "", module |-> PositionEmbeddingLearned(N_steps)]
        ELSE [raised |-> "ValueError", module |-> NoModule]

build_position_encoding(a) ==
    LET N_steps == a.hidden_dim \div 2
    IN  IF a.position_embedding \in {"v2", "sine"}
        THEN [raised |-> "", module |-> PositionEmbeddingSine(N_steps, TRUE)]
        ELSE IF a.position_embedding \in {"v3", "learned"}
        THEN [raised |-> "", module |-> PositionEmbeddingLearned(N_steps)]
        ELSE [raised |-> "ValueError", module |-> NoModule]

(* t[..., start::2] for a list of channels *)
EveryOther(chs, start) ==
    [j \in 1..((Len(chs) - start + 1) \div 2) |-> At(chs, start + 2 * (j - 1))]

(* torch.stack((a, b), dim=4).flatten(3): a and b interleaved; the two must
   have the same size *)
StackFlatten(a, b) ==
    [m \in 1..(2 * Len(a)) |-> IF m % 2 = 1 THEN a[(m + 1) \div 2] ELSE b[m \div 2]]

(* lines 41-50 for one axis: channel i is fn(embed / temperature^(2*(i//2)/n)) *)
SineChannels(axis, n) ==
    LET dim_t == [c \in 1..n |->
                     [axis |-> axis, channel |-> c - 1,
                      exponent |-> <<2 * ((c - 1) \div 2), n>>]]
        sins  == [j \in DOMAIN EveryOther(dim_t, 0) |->
                     [fn |-> "sin"] @@ EveryOther(dim_t, 0)[j]]
        coss  == [j \in DOMAIN EveryOther(dim_t, 1) |->
                     [fn |-> "cos"] @@ EveryOther(dim_t, 1)[j]]
    IN  IF Len(sins) = Len(coss)
        THEN [raised |-> "", channels |-> StackFlatten(sins, coss)]
        ELSE [raised |-> "RuntimeError", channels |-> <<>>]

(* PositionEmbeddingSine.forward on a mask of shape [B, H, W]; the result is
   its shape and, per output channel, what the channel computes *)
PositionEmbeddingSineForward(self, shape) ==
    LET pos_x == SineChannels("x", self.num_pos_feats)
        pos_y == SineChannels("y", self.num_pos_feats)
    IN  IF pos_x.raised # "" \/ pos_y.raised # ""
        THEN [status |-> "RuntimeError", shape |-> <<>>, channels |-> <<>>]
        ELSE LET chs == pos_y.channels \o pos_x.channels
             IN  [status |-> "ok",
                  shape |-> <<shape[1], Len(chs), shape[2], shape[3]>>,
                  channels |-> chs]

(* nn.Embedding lookup of arange(count): every index must be below num_embeddings *)
EmbeddingLookupOK(table, count) == \A ix \in 0..(count - 1) : ix < table.num_embeddings

(* mutant: a table of n rows is taken to serve indices 0..n-2 only *)
PositionEmbeddingLearnedForward_OffByOne(self, shape) ==
    LET h == shape[2]
        w == shape[3]
    IN  IF h >= self.row_embed.num_embeddings \/ w >= self.col_embed.num_embeddings
        THEN [status |-> "IndexError", shape |-> <<>>, channels |-> <<>>]
        ELSE LET x_chs == [c \in 1..self.col_embed.embedding_dim |->
                              [table |-> "col_embed", feature |-> c - 1]]
                 y_chs == [c \in 1..self.row_embed.embedding_dim |->
                              [table |-> "row_embed", feature |-> c - 1]]
                 chs   == x_chs \o y_chs
             IN  [status |-> "ok",
                  shape |-> <<shape[1], Len(chs), h, w>>,
                  channels |-> chs]

(* PositionEmbeddingLearned.forward on a mask of shape [B, H, W] *)
PositionEmbeddingLearnedForward(self, shape) ==
    LET h == shape[2]
        w == shape[3]
    IN  IF ~EmbeddingLookupOK(self.col_embed, w) \/ ~EmbeddingLookupOK(self.row_embed, h)
        THEN [status |-> "IndexError", shape |-> <<>>, channels |-> <<>>]
        ELSE LET x_chs == [c \in 1..self.col_embed.embedding_dim |->
                              [table |-> "col_embed", feature |-> c - 1]]
                 y_chs == [c \in 1..self.row_embed.embedding_dim |->
                              [table |-> "row_embed", feature |-> c - 1]]
                 chs   == x_chs \o y_chs
             IN  [status |-> "ok",
                  shape |-> <<shape[1], Len(chs), h, w>>,
                  channels |-> chs]

(* Configurations and masks a caller may pass.  max_extent is the "max
   spatial extent for learned tables" a caller may ask for; nothing in
   position_encoding.py reads it. *)
Options == {"sine", "v2", "learned", "v3", "v1", "fourier", ""}
DimChoices == {1, 2} \cup ((NumEmbeddings - 1)..(NumEmbeddings + MaxOver))
ExtentChoices == {NumEmbeddings, NumEmbeddings + 1}

IdleCriterion ==
    /\ outputs = <<>>
    /\ targets = <<>>
    /\ matcher = <<>>
    /\ pc = "idle"
    /\ indices = <<>>
    /\ indices_aux = <<>>
    /\ num_boxes = 0
    /\ losses = <<>>
    /\ aux_i = 0
    /\ box_frame = NoFrame
    /\ call = 0
    /\ prev_losses = <<>>
    /\ perturbed = -1

InitPos ==
    /\ args \in [position_embedding : Options,
                 hidden_dim : 2..MaxHiddenDim,
                 max_extent : ExtentChoices]
    /\ mask_shape \in {<<B, H, W>> : B \in 1..MaxBatch, H \in DimChoices, W \in DimChoices}
    /\ position_embedding = NoModule
    /\ pos = NoPos
    /\ pe_pc = "build"
    /\ IdleCriterion

(* build_position_encoding(args) returns a module *)
Build ==
    /\ pe_pc = "build"
    /\ build_position_encoding(args).raised = ""
    /\ position_embedding' = build_position_encoding(args).module
    /\ pe_pc' = "built"
    /\ UNCHANGED <<args, mask_shape, pos>>
    /\ UNCHANGED crit_vars

(* build_position_encoding(args) raises ValueError *)
BuildFail ==
    /\ pe_pc = "build"
    /\ build_position_encoding(args).raised # ""
    /\ pe_pc' = "config_error"
    /\ UNCHANGED <<args, position_embedding, mask_shape, pos>>
    /\ UNCHANGED crit_vars

ForwardSine ==
    /\ pe_pc = "built"
    /\ position_embedding.kind = "sine"
    /\ pos' = PositionEmbeddingSineForward(position_embedding, mask_shape)
    /\ pe_pc' = "returned"
    /\ UNCHANGED <<args, position_embedding, mask_shape>>
    /\ UNCHANGED crit_vars

ForwardLearned ==
    /\ pe_pc = "built"
    /\ position_embedding.kind = "learned"
    /\ pos' = PositionEmbeddingLearnedForward(position_embedding, mask_shape)
    /\ pe_pc' = "returned"
    /\ UNCHANGED <<args, position_embedding, mask_shape>>
    /\ UNCHANGED crit_vars

NextPos ==
    \/ Build
    \/ BuildFail
    \/ ForwardSine
    \/ ForwardLearned

SpecPos == InitPos /\ [][NextPos]_vars

----------------------------------------------------------------------------
(* Vocabulary of the claims *)

Digit == <<"0", "1", "2", "3", "4", "5", "6", "7", "8", "9">>
KeyName(base, i) == base \o "_" \o Digit[i + 1]
BaseKeys == {"loss_ce", "loss_bbox", "loss_giou"}
LayerKeys(i) == {KeyName(base, i) : base \in BaseKeys}
NumAux == Len(AuxLayers(outputs))
ExpectedKeys == BaseKeys \cup UNION {LayerKeys(i) : i \in 0..(NumAux - 1)}
AllEmpty == \A b \in DOMAIN targets : Len(targets[b].labels) = 0
Normalized == pc \in {"loss_labels", "loss_boxes", "aux", "aux_losses", "done"}

(* the three terms of one layer, from the matcher's answer for that layer *)
LayerTerms(layer) ==
    LET inds == MatcherAnswer(matcher[layer], targets)
    IN  loss_labels(layer, targets, inds, num_boxes)
        @@ loss_boxes(layer, targets, inds, num_boxes)

(* the layer and the assignment the latest loss_boxes call worked on *)
FrameLayer == IF aux_i = 0 THEN outputs_without_aux(outputs) ELSE AuxLayer(outputs, aux_i - 1)
FrameIndices == IF aux_i = 0 THEN indices ELSE indices_aux
FrameValid == pc \in {"aux", "done"}

(* number of matched pairs of images 1..b-1 *)
Offset(inds, b) == SumSeq([n \in 1..(b - 1) |-> Len(inds[n][1])])

----------------------------------------------------------------------------
(* C1: the normalizer num_boxes that divides loss_bbox and loss_giou is the
   sum of the per-image target counts clamped to at least 1: it is >= 1 at
   every division, and a batch whose images all have zero targets yields
   box-loss terms equal to zero.  (Stated as claimed; the code does not
   clamp.) *)
C1_NormalizerClampedToOne ==
    Normalized =>
        /\ num_boxes = Max2(NumBoxes(targets), 1)
        /\ num_boxes >= 1
        /\ AllEmpty =>
             \A key \in DOMAIN losses :
                 "num" \in DOMAIN losses[key] => losses[key] = Zero

(* C2: with L auxiliary layers the returned dictionary has exactly 3*(1+L)
   keys: loss_ce, loss_bbox, loss_giou and, for each zero-based layer index
   i < L, loss_ce_i, loss_bbox_i, loss_giou_i; each key holds the term of
   its own layer. *)
C2_ExactLossKeys ==
    pc = "done" =>
        /\ DOMAIN losses = ExpectedKeys
        /\ Cardinality(DOMAIN losses) = 3 * (1 + NumAux)
        /\ LET terms == LayerTerms(outputs_without_aux(outputs))
           IN  \A base \in BaseKeys : losses[base] = terms[base]
        /\ \A i \in 0..(NumAux - 1) :
             LET terms == LayerTerms(AuxLayer(outputs, i))
             IN  \A base \in BaseKeys : losses[KeyName(base, i)] = terms[base]

C2_Witness ==
    /\ pc = "done"
    /\ NumAux = 2
    /\ AuxLayer(outputs, 0) # AuxLayer(outputs, 1)
    /\ \E b \in DOMAIN targets : Len(targets[b].labels) = 2

(* C3: the dense classification target has shape [batch, Q]; slot q of image
   b holds the label of the k-th matched target when q is the k-th matched
   query of b, and the no-object index num_classes otherwise; an image with
   zero targets has all Q slots equal to num_classes, and the number of
   entries different from num_classes is the number of matched pairs. *)
DenseTargetOK(tc, inds) ==
    /\ Len(tc) = Len(targets)
    /\ \A b \in DOMAIN targets :
         /\ Len(tc[b]) = NumQueries
         /\ \A q \in 0..(NumQueries - 1) :
              LET hits == {k \in DOMAIN inds[b][1] : inds[b][1][k] = q}
              IN  IF hits = {} THEN At(tc[b], q) = num_classes
                  ELSE \A k \in hits :
                         At(tc[b], q) = At(targets[b].labels, inds[b][2][k])
         /\ Len(targets[b].labels) = 0 =>
              \A q \in 1..NumQueries : tc[b][q] = num_classes
    /\ Cardinality({bq \in (DOMAIN tc) \X (1..NumQueries) : tc[bq[1]][bq[2]] # num_classes})
         = SumSeq([b \in DOMAIN inds |-> Len(inds[b][1])])

C3_DenseClassTarget ==
    /\ pc \in {"loss_boxes", "aux", "aux_losses", "done"} =>
         DenseTargetOK(losses["loss_ce"].target, indices)
    /\ (pc \in {"aux", "done"} /\ aux_i > 0) =>
         DenseTargetOK(losses[KeyName("loss_ce", aux_i - 1)].target, indices_aux)

C3_Witness ==
    /\ pc = "aux"
    /\ aux_i > 0
    /\ Len(targets) = 2
    /\ Len(targets[1].labels) = 0
    /\ Len(targets[2].labels) = 2
    /\ indices_aux[2][2] = <<1, 0>>
    /\ losses[KeyName("loss_ce", aux_i - 1)].target[2] = <<0, 1>>

(* C4: when every target of every image is matched exactly once, loss_boxes
   sums over exactly sum(len(targets_i)) (predicted, target) pairs, which is
   num_boxes as forward computes it; unmatched queries give no pair. *)
C4_PairCountIsNumBoxes ==
    FrameValid =>
        /\ Len(box_frame.src_boxes) = NumBoxes(targets)
        /\ Len(box_frame.target_boxes) = NumBoxes(targets)
        /\ num_boxes = NumBoxes(targets)
        /\ \A k \in DOMAIN box_frame.src_boxes :
             \E b \in DOMAIN targets : \E j \in DOMAIN FrameIndices[b][1] :
                 /\ box_frame.idx[1][k] = b - 1
                 /\ box_frame.idx[2][k] = FrameIndices[b][1][j]

C4_Witness ==
    /\ FrameValid
    /\ Len(targets) = 2
    /\ NumBoxes(targets) = 3
    /\ Len(box_frame.src_boxes) = 3

(* C9: _get_src_permutation_idx returns two parallel flat sequences of length
   sum_b len(src_b), images in batch order and matches in assignment order;
   so loss_boxes pairs pred_boxes[b][src_b[k]] with targets[b].boxes[tgt_b[k]]. *)
C9_PermutationIdxOrder ==
    FrameValid =>
        LET inds == FrameIndices
            f    == box_frame
            total == SumSeq([b \in DOMAIN inds |-> Len(inds[b][1])])
        IN  /\ Len(f.idx[1]) = total
            /\ Len(f.idx[2]) = total
            /\ Len(f.src_boxes) = total
            /\ Len(f.target_boxes) = total
            /\ \A b \in DOMAIN inds : \A k \in DOMAIN inds[b][1] :
                 LET at == Offset(inds, b) + k
                 IN  /\ f.idx[1][at] = b - 1
                     /\ f.idx[2][at] = inds[b][1][k]
                     /\ f.src_boxes[at] = At(At(FrameLayer.pred_boxes, b - 1), inds[b][1][k])
                     /\ f.target_boxes[at] = At(targets[b].boxes, inds[b][2][k])

C9_Witness ==
    /\ FrameValid
    /\ Len(targets) = 2
    /\ Len(targets[1].labels) = 1
    /\ Len(targets[2].labels) = 2
    /\ FrameIndices[2] = << <<1, 0>>, <<0, 1>> >>
    /\ box_frame.idx = << <<0, 1, 1>>, <<1, 1, 0>> >>

(* C10: forward's outcome does not depend on the order in which pred_logits,
   pred_boxes and aux_outputs were inserted into the predictions mapping: it
   never fails, and returns the dictionary the entries determine.  (Stated
   as claimed; the code fails when aux_outputs comes first.) *)
C10_KeyOrderIrrelevant ==
    /\ pc # "error"
    /\ pc = "done" =>
         LET terms == LayerTerms(outputs_without_aux(outputs))
         IN  \A base \in BaseKeys : losses[base] = terms[base]

(* C5: for two calls with the same targets and the same deterministic
   matcher whose predictions differ only in aux_outputs[k], every returned
   term except loss_ce_k, loss_bbox_k, loss_giou_k is the same in both. *)
C5_AuxLayersIndependent ==
    (call = 2 /\ pc = "done") =>
        /\ DOMAIN losses = DOMAIN prev_losses
        /\ \A key \in DOMAIN losses \ LayerKeys(perturbed) :
               losses[key] = prev_losses[key]

C5_Witness ==
    /\ call = 2
    /\ pc = "done"
    /\ NumAux = 2
    /\ perturbed = 1
    /\ NumBoxes(targets) > 0
    /\ \A key \in LayerKeys(perturbed) : losses[key] # prev_losses[key]

----------------------------------------------------------------------------
(* Claims about position_encoding.py, checked under SpecPos *)

Built == pe_pc \in {"built", "returned"}
Returned(kind) == pe_pc = "returned" /\ position_embedding.kind = kind

(* C6: build_position_encoding returns a PositionEmbeddingSine for 'sine' or
   'v2' and a PositionEmbeddingLearned for 'learned' or 'v3', both with
   num_pos_feats = hidden_dim // 2, so that 2*num_pos_feats = hidden_dim for
   even hidden_dim; for every other option it raises a configuration error
   and returns no embedding. *)
C6_BuilderDispatch ==
    pe_pc # "build" =>
        LET opt == args.position_embedding
        IN  /\ opt \in {"sine", "v2"} => Built /\ position_embedding.kind = "sine"
            /\ opt \in {"learned", "v3"} => Built /\ position_embedding.kind = "learned"
            /\ opt \notin {"sine", "v2", "learned", "v3"} =>
                 pe_pc = "config_error" /\ position_embedding = NoModule
            /\ Built =>
                 /\ position_embedding.num_pos_feats = args.hidden_dim \div 2
                 /\ args.hidden_dim % 2 = 0 =>
                      2 * position_embedding.num_pos_feats = args.hidden_dim

C6_Witness ==
    /\ pe_pc = "built"
    /\ args.position_embedding = "v3"
    /\ args.hidden_dim = 6
    /\ position_embedding.kind = "learned"
    /\ position_embedding.num_pos_feats = 3

(* C7: PositionEmbeddingSine.forward returns a map of shape exactly
   [batch, 2*num_pos_feats, H, W] for every mask [batch, H, W] and every
   positive num_pos_feats, odd values included: first the num_pos_feats y
   channels, then the x channels, channel i of a block using sine when i is
   even and cosine when i is odd.  (Stated as claimed; the code raises for
   odd num_pos_feats.) *)
C7_SineShapeAnyFeats ==
    Returned("sine") =>
        LET n == position_embedding.num_pos_feats
        IN  /\ pos.status = "ok"
            /\ pos.shape = <<mask_shape[1], 2 * n, mask_shape[2], mask_shape[3]>>
            /\ Len(pos.channels) = 2 * n
            /\ \A c \in 0..(2 * n - 1) :
                 LET ch == At(pos.channels, c)
                 IN  /\ ch.axis = (IF c < n THEN "y" ELSE "x")
                     /\ ch.channel = c % n
                     /\ ch.fn = (IF (c % n) % 2 = 0 THEN "sin" ELSE "cos")

(* C8 as claimed: PositionEmbeddingLearned.forward fails with an index error
   whenever H or W exceeds the configured maximum (default 50) and succeeds
   for every mask with H and W at most that maximum, the maximum being a
   configurable extent of the embedding. *)
C8_FailsBeyondConfiguredExtent ==
    Returned("learned") =>
        /\ pos.status = "IndexError" <=>
             (mask_shape[2] > args.max_extent \/ mask_shape[3] > args.max_extent)
        /\ pos.status = "ok" <=>
             (mask_shape[2] <= args.max_extent /\ mask_shape[3] <= args.max_extent)

(* C8 as amended: PositionEmbeddingLearned.forward fails with an index error
   whenever H or W exceeds 50, the size the constructor gives both lookup
   tables whatever the configuration asks for, and succeeds (shape
   [batch, 2*num_pos_feats, H, W]) for every mask with H <= 50 and W <= 50. *)
C8_FailsBeyondFixedExtent ==
    /\ (Built /\ position_embedding.kind = "learned") =>
         /\ position_embedding.row_embed.num_embeddings = NumEmbeddings
         /\ position_embedding.col_embed.num_embeddings = NumEmbeddings
    /\ Returned("learned") =>
         /\ pos.status = "IndexError" <=>
              (mask_shape[2] > NumEmbeddings \/ mask_shape[3] > NumEmbeddings)
         /\ pos.status = "ok" <=>
              (mask_shape[2] <= NumEmbeddings /\ mask_shape[3] <= NumEmbeddings)
         /\ pos.status = "ok" =>
              pos.shape = <<mask_shape[1], 2 * position_embedding.num_pos_feats,
                            mask_shape[2], mask_shape[3]>>

C8_Witness ==
    /\ Returned("learned")
    /\ mask_shape[2] = NumEmbeddings + 1
    /\ mask_shape[3] = NumEmbeddings
    /\ args.max_extent = NumEmbeddings + 1
    /\ pos.status = "IndexError"

C8_WitnessAtLimit ==
    /\ Returned("learned")
    /\ mask_shape[2] = NumEmbeddings
    /\ mask_shape[3] = NumEmbeddings
    /\ pos.status = "ok"

====
